---- MODULE Spec2Model ----
(***************************************************************************)
(* A model of ExcelManager (src/excel_manager.py): a facade over one       *)
(* in-memory workbook bound to a file path, and the CLI entry point main.  *)
(*                                                                         *)
(* Strings that the code takes apart (column letters, A1 references) are   *)
(* sequences of one-character strings: "B2" is <<"B","2">>.  Cell values   *)
(* are strings; None is the value of a cell that holds nothing.  A sheet   *)
(* is the function from the coordinates <<row, column>> of its non-empty   *)
(* cells to their values (styles, borders and widths are not modelled).    *)
(*                                                                         *)
(* The spreadsheet engine (openpyxl) is called, not defined, by the        *)
(* repository; what a call does is modelled at the line that makes it.     *)
(***************************************************************************)
EXTENDS Integers, Sequences, FiniteSets, TLC

VARIABLES
    file,      \* the file at the bound path: NoFile or its persisted content
    wb,        \* wb[i]: the workbook of facade i (self.wb), NoWb before __init__
    created,   \* created[i]: the names passed to create_sheet on facade i (history)
    last,      \* the most recent facade call: its arguments, outcome and result
    cli        \* the CLI process: runs so far, exit status and output of the last run

vars == <<file, wb, created, last, cli>>

----------------------------------------------------------------------------
(* Values and names *)

None == "<None>"
\* No file at the path, and no workbook yet: a file or a workbook always has
\* at least one sheet, so the ones with no sheet stand for their absence.
NoFile == [sheetnames |-> <<>>, entries |-> {}]
NoWb == [sheetnames |-> <<>>, cells |-> <<>>]

Facades == {1, 2}

\* The sheet openpyxl's Workbook() starts with.
DefaultSheet == "Sheet"

\* The CLI's sheet (the source's name for it is written in Japanese).
DemoSheet == "Data"
DemoHeaders == <<"ID", "name", "value">>
DemoFormat == "#,##0"

Alphabet == <<"A", "B", "C", "D", "E", "F", "G", "H", "I", "J", "K", "L", "M",
              "N", "O", "P", "Q", "R", "S", "T", "U", "V", "W", "X", "Y", "Z">>
Digits == <<"0", "1", "2", "3", "4", "5", "6", "7", "8", "9">>

Range(s) == {s[k] : k \in DOMAIN s}

IsLetter(ch) == \E k \in DOMAIN Alphabet : Alphabet[k] = ch
IsDigit(ch) == \E k \in DOMAIN Digits : Digits[k] = ch
LetterIndex(ch) == CHOOSE k \in DOMAIN Alphabet : Alphabet[k] = ch
DigitValue(ch) == (CHOOSE k \in DOMAIN Digits : Digits[k] = ch) - 1

\* A column argument: an integer or a string of letters (Union[int, str]).
IntCol(n) == [isStr |-> FALSE, n |-> n, s |-> <<>>]
StrCol(s) == [isStr |-> TRUE, n |-> 0, s |-> s]
NoCol == IntCol(0)

----------------------------------------------------------------------------
(* The engine's addressing *)

\* Base26 with the letters added and no place value: AA would be column 2.
RECURSIVE Base26_no_place_value(_)
Base26_no_place_value(s) ==
    IF s = <<>> THEN 0
    ELSE Base26_no_place_value(SubSeq(s, 1, Len(s) - 1)) + LetterIndex(s[Len(s)])

RECURSIVE Base26(_)
Base26(s) ==
    IF s = <<>> THEN 0
    ELSE 26 * Base26(SubSeq(s, 1, Len(s) - 1)) + LetterIndex(s[Len(s)])

\* openpyxl.utils.column_index_from_string: A..ZZZ to 1..18278, ValueError otherwise.
column_index_from_string(s) ==
    IF Len(s) \in 1..3 /\ \A k \in DOMAIN s : IsLetter(s[k])
    THEN [ok |-> TRUE, n |-> Base26(s)]
    ELSE [ok |-> FALSE, n |-> 0]

RECURSIVE ToInt(_)
ToInt(s) ==
    IF s = <<>> THEN 0
    ELSE 10 * ToInt(SubSeq(s, 1, Len(s) - 1)) + DigitValue(s[Len(s)])

\* The number of leading letters of a reference.
RECURSIVE LeadingLetters(_)
LeadingLetters(s) ==
    IF s = <<>> \/ ~IsLetter(Head(s)) THEN 0 ELSE 1 + LeadingLetters(Tail(s))

\* ws[cell_reference] (Worksheet.__getitem__): the reference is matched against
\* letters{0,3} digits*; no match raises ValueError, an empty match (or row 0
\* alone) raises IndexError, letters alone or digits alone select a whole
\* column or row and give a tuple of cells, and letters with a row below 1
\* raise ValueError; otherwise the one cell.
ws_getitem(ref) ==
    LET k == LeadingLetters(ref)
        letters == SubSeq(ref, 1, k)
        rest == SubSeq(ref, k + 1, Len(ref))
    IN  IF k > 3 \/ \E j \in DOMAIN rest : ~IsDigit(rest[j])
        THEN [kind |-> "ValueError", row |-> 0, col |-> 0]
        ELSE IF k = 0 /\ ToInt(rest) = 0
        THEN [kind |-> "IndexError", row |-> 0, col |-> 0]
        ELSE IF k = 0 \/ rest = <<>>
        THEN [kind |-> "tuple", row |-> 0, col |-> 0]
        ELSE IF ToInt(rest) < 1
        THEN [kind |-> "ValueError", row |-> 0, col |-> 0]
        ELSE [kind |-> "cell", row |-> ToInt(rest), col |-> Base26(letters)]

----------------------------------------------------------------------------
(* Workbooks *)

EmptySheet == [rc \in {} |-> None]

\* Workbook(): one empty sheet, DefaultSheet.
Workbook ==
    [sheetnames |-> <<DefaultSheet>>,
     cells |-> [n \in {DefaultSheet} |-> EmptySheet]]

HasSheet(w, sheet_name) == sheet_name \in Range(w.sheetnames)

\* ws.cell(row, column).value
GetCell(ws, row, col) ==
    IF <<row, col>> \in DOMAIN ws THEN ws[<<row, col>>] ELSE None

\* cell.value = value
SetCell(ws, row, col, value) ==
    IF value = None
    THEN [rc \in DOMAIN ws \ {<<row, col>>} |-> ws[rc]]
    ELSE [rc \in DOMAIN ws \cup {<<row, col>>} |->
            IF rc = <<row, col>> THEN value ELSE ws[rc]]

SetSheet(w, sheet_name, ws) ==
    [w EXCEPT !.cells = [n \in DOMAIN w.cells |->
                           IF n = sheet_name THEN ws ELSE w.cells[n]]]

----------------------------------------------------------------------------
(* Outcomes: "ok", or the exception a call ends with, named by the place    *)
(* that raises it.                                                          *)

OK == "ok"
\* ValueError raised by create_sheet for a name in wb.sheetnames
DuplicateSheet == "ValueError: sheet already exists"
\* ValueError raised by every other operation for a name not in wb.sheetnames
UnknownSheet == "ValueError: sheet does not exist"
\* ValueError raised by write_cell / read_cell around the row and column checks
InvalidColumn == "ValueError: invalid column"
\* ValueError raised by write_cell_a1 around ws[cell_reference]
InvalidReference == "ValueError: invalid cell reference"
\* ValueError raised by read_range around the bounds checks
InvalidRange == "ValueError: invalid range"
\* ValueError raised by write_cell / write_cell_a1 around cell.number_format
InvalidFormat == "ValueError: invalid number format"
\* exceptions of the engine that the facade lets through unchanged
EngineValueError == "ValueError (engine): not a valid coordinate"
EngineIndexError == "IndexError (engine): not a valid coordinate or range"
TupleAttributeError == "AttributeError: 'tuple' object has no attribute 'value'"
\* raised by save
PermissionDenied == "PermissionError: no write permission"
PersistFailed == "OSError: save failed"

\* What a call gives back: the workbook after it, its outcome, the value
\* returned (a cell value or a sheet handle) and the rows returned.
Result(w, out, ret, rows) == [wb |-> w, out |-> out, ret |-> ret, rows |-> rows]
Raise(w, out) == Result(w, out, None, <<>>)

----------------------------------------------------------------------------
(* The facade's operations *)

\* for col, header in enumerate(headers, 1): ws.cell(row=1, column=col).value = header
RECURSIVE WriteHeaders(_, _, _)
WriteHeaders(ws, headers, col) ==
    IF headers = <<>> THEN ws
    ELSE WriteHeaders(SetCell(ws, 1, col, Head(headers)), Tail(headers), col + 1)

\* create_sheet without the duplicate check: an existing sheet is replaced.
create_sheet_replacing(w, sheet_name, headers) ==
    LET ws == IF headers # <<>> THEN WriteHeaders(EmptySheet, headers, 1)
              ELSE EmptySheet
    IN  Result([sheetnames |-> IF HasSheet(w, sheet_name) THEN w.sheetnames
                               ELSE Append(w.sheetnames, sheet_name),
                cells |-> [n \in DOMAIN w.cells \cup {sheet_name} |->
                             IF n = sheet_name THEN ws ELSE w.cells[n]]],
               OK, sheet_name, <<>>)

create_sheet(w, sheet_name, headers) ==
    IF HasSheet(w, sheet_name)
    THEN Raise(w, DuplicateSheet)
    ELSE LET ws == IF headers # <<>> THEN WriteHeaders(EmptySheet, headers, 1)
                   ELSE EmptySheet
         IN  Result([sheetnames |-> Append(w.sheetnames, sheet_name),
                     cells |-> [n \in DOMAIN w.cells \cup {sheet_name} |->
                                  IF n = sheet_name THEN ws ELSE w.cells[n]]],
                    OK, sheet_name, <<>>)

\* The cells of one row of data, in order; ws.cell raises ValueError for a
\* row below 1, and the cells written before it stay written.
RECURSIVE WriteRowData(_, _, _, _)
WriteRowData(ws, row_idx, row_data, col_idx) ==
    IF row_data = <<>> THEN [ws |-> ws, out |-> OK]
    ELSE IF row_idx < 1 THEN [ws |-> ws, out |-> EngineValueError]
    ELSE WriteRowData(SetCell(ws, row_idx, col_idx, Head(row_data)),
                      row_idx, Tail(row_data), col_idx + 1)

RECURSIVE WriteRows(_, _, _)
WriteRows(ws, data, row_idx) ==
    IF data = <<>> THEN [ws |-> ws, out |-> OK]
    ELSE LET r == WriteRowData(ws, row_idx, Head(data), 1)
         IN  IF r.out # OK THEN r
             ELSE WriteRows(r.ws, Tail(data), row_idx + 1)

write_data(w, sheet_name, data, start_row) ==
    IF ~HasSheet(w, sheet_name)
    THEN Raise(w, UnknownSheet)
    ELSE LET r == WriteRows(w.cells[sheet_name], data, start_row)
         IN  Result(SetSheet(w, sheet_name, r.ws), r.out, None, <<>>)

\* col_idx = column_index_from_string(column) if isinstance(column, str) else column,
\* then the checks col_idx < 1 and row < 1: the column resolved, or not ok.
ResolveCell(row, column) ==
    LET c == IF column.isStr THEN column_index_from_string(column.s)
             ELSE [ok |-> TRUE, n |-> column.n]
    IN  IF ~c.ok \/ c.n < 1 \/ row < 1
        THEN [ok |-> FALSE, n |-> 0]
        ELSE c

\* StoreValue with the number format applied before the value is assigned.
StoreValue_format_first(w, sheet_name, row, col, value, number_format, accepted) ==
    IF number_format # None /\ ~accepted
    THEN Raise(w, InvalidFormat)
    ELSE Result(SetSheet(w, sheet_name, SetCell(w.cells[sheet_name], row, col, value)),
                OK, None, <<>>)

\* cell.value = value, then cell.number_format = number_format if one is
\* given; accepted says whether the engine takes the format.
StoreValue(w, sheet_name, row, col, value, number_format, accepted) ==
    LET w2 == SetSheet(w, sheet_name, SetCell(w.cells[sheet_name], row, col, value))
    IN  IF number_format # None /\ ~accepted
        THEN Raise(w2, InvalidFormat)
        ELSE Result(w2, OK, None, <<>>)

write_cell(w, sheet_name, row, column, value, number_format, accepted) ==
    IF ~HasSheet(w, sheet_name)
    THEN Raise(w, UnknownSheet)
    ELSE LET c == ResolveCell(row, column)
         IN  IF ~c.ok THEN Raise(w, InvalidColumn)
             ELSE StoreValue(w, sheet_name, row, c.n, value, number_format, accepted)

write_cell_a1(w, sheet_name, cell_reference, value, number_format, accepted) ==
    IF ~HasSheet(w, sheet_name)
    THEN Raise(w, UnknownSheet)
    ELSE LET cell == ws_getitem(cell_reference)
         IN  CASE cell.kind = "ValueError" -> Raise(w, InvalidReference)
               [] cell.kind = "IndexError" -> Raise(w, EngineIndexError)
               [] cell.kind = "tuple" -> Raise(w, TupleAttributeError)
               [] OTHER -> StoreValue(w, sheet_name, cell.row, cell.col, value,
                                      number_format, accepted)

\* read_cell without the sheet check: a missing sheet reads as empty.
read_cell_unchecked(w, sheet_name, row, column) ==
    LET c == ResolveCell(row, column)
    IN  IF ~c.ok THEN Raise(w, InvalidColumn)
        ELSE IF ~HasSheet(w, sheet_name) THEN Result(w, OK, None, <<>>)
        ELSE Result(w, OK, GetCell(w.cells[sheet_name], row, c.n), <<>>)

read_cell(w, sheet_name, row, column) ==
    IF ~HasSheet(w, sheet_name)
    THEN Raise(w, UnknownSheet)
    ELSE LET c == ResolveCell(row, column)
         IN  IF ~c.ok THEN Raise(w, InvalidColumn)
             ELSE Result(w, OK, GetCell(w.cells[sheet_name], row, c.n), <<>>)

\* read_cell_a1 that answers the empty value for a reference the engine refuses.
read_cell_a1_lenient(w, sheet_name, cell_reference) ==
    IF ~HasSheet(w, sheet_name)
    THEN Raise(w, UnknownSheet)
    ELSE LET cell == ws_getitem(cell_reference)
         IN  IF cell.kind = "cell"
             THEN Result(w, OK, GetCell(w.cells[sheet_name], cell.row, cell.col), <<>>)
             ELSE Result(w, OK, None, <<>>)

read_cell_a1(w, sheet_name, cell_reference) ==
    IF ~HasSheet(w, sheet_name)
    THEN Raise(w, UnknownSheet)
    ELSE LET cell == ws_getitem(cell_reference)
         IN  CASE cell.kind = "ValueError" -> Raise(w, EngineValueError)
               [] cell.kind = "IndexError" -> Raise(w, EngineIndexError)
               [] cell.kind = "tuple" -> Raise(w, TupleAttributeError)
               [] OTHER -> Result(w, OK,
                                  GetCell(w.cells[sheet_name], cell.row, cell.col), <<>>)

\* RangeBounds without the comparison of the two columns.
RangeBounds_columns_unordered(start_row, start_column, end_row, end_column) ==
    LET sc == IF start_column.isStr THEN column_index_from_string(start_column.s)
              ELSE [ok |-> TRUE, n |-> start_column.n]
        ec == IF end_column.isStr THEN column_index_from_string(end_column.s)
              ELSE [ok |-> TRUE, n |-> end_column.n]
    IN  IF start_row < 1 \/ end_row < 1 THEN [ok |-> FALSE, sc |-> 0, ec |-> 0]
        ELSE IF end_row < start_row THEN [ok |-> FALSE, sc |-> 0, ec |-> 0]
        ELSE IF ~sc.ok \/ ~ec.ok THEN [ok |-> FALSE, sc |-> 0, ec |-> 0]
        ELSE IF sc.n < 1 \/ ec.n < 1 THEN [ok |-> FALSE, sc |-> 0, ec |-> 0]
        ELSE [ok |-> TRUE, sc |-> sc.n, ec |-> ec.n]

\* The checks of read_range in the order the code makes them; a column
\* string that does not resolve raises inside the same try.
RangeBounds(start_row, start_column, end_row, end_column) ==
    LET sc == IF start_column.isStr THEN column_index_from_string(start_column.s)
              ELSE [ok |-> TRUE, n |-> start_column.n]
        ec == IF end_column.isStr THEN column_index_from_string(end_column.s)
              ELSE [ok |-> TRUE, n |-> end_column.n]
    IN  IF start_row < 1 \/ end_row < 1 THEN [ok |-> FALSE, sc |-> 0, ec |-> 0]
        ELSE IF end_row < start_row THEN [ok |-> FALSE, sc |-> 0, ec |-> 0]
        ELSE IF ~sc.ok \/ ~ec.ok THEN [ok |-> FALSE, sc |-> 0, ec |-> 0]
        ELSE IF sc.n < 1 \/ ec.n < 1 THEN [ok |-> FALSE, sc |-> 0, ec |-> 0]
        ELSE IF ec.n < sc.n THEN [ok |-> FALSE, sc |-> 0, ec |-> 0]
        ELSE [ok |-> TRUE, sc |-> sc.n, ec |-> ec.n]

\* iter_rows that stops one row before max_row.
iter_rows_exclusive(ws, min_row, max_row, min_col, max_col) ==
    [i \in 1..(max_row - min_row) |->
        [j \in 1..(max_col - min_col + 1) |->
            GetCell(ws, min_row + i - 1, min_col + j - 1)]]

\* ws.iter_rows(min_row, max_row, min_col, max_col, values_only=True)
iter_rows(ws, min_row, max_row, min_col, max_col) ==
    [i \in 1..(max_row - min_row + 1) |->
        [j \in 1..(max_col - min_col + 1) |->
            GetCell(ws, min_row + i - 1, min_col + j - 1)]]

read_range(w, sheet_name, start_row, start_column, end_row, end_column) ==
    IF ~HasSheet(w, sheet_name)
    THEN Raise(w, UnknownSheet)
    ELSE LET b == RangeBounds(start_row, start_column, end_row, end_column)
         IN  IF ~b.ok THEN Raise(w, InvalidRange)
             ELSE Result(w, OK, None,
                         iter_rows(w.cells[sheet_name], start_row, end_row, b.sc, b.ec))

----------------------------------------------------------------------------
(* Persistence *)

\* save_workbook that writes the active sheet only.
save_workbook_active_only(w) ==
    [sheetnames |-> <<w.sheetnames[1]>>,
     entries |-> {<<w.sheetnames[1], rc[1], rc[2], w.cells[w.sheetnames[1]][rc]>> :
                    rc \in {x \in DOMAIN w.cells[w.sheetnames[1]] :
                              w.cells[w.sheetnames[1]][x] # ""}}]

\* wb.save(filename): the sheets in order and, of every sheet, the cells
\* that hold a value; the engine writes a cell holding "" as a cell with no
\* value.
save_workbook(w) ==
    [sheetnames |-> w.sheetnames,
     entries |-> UNION {{<<n, rc[1], rc[2], w.cells[n][rc]>> :
                           rc \in {x \in DOMAIN w.cells[n] : w.cells[n][x] # ""}} :
                        n \in DOMAIN w.cells}]

\* load_workbook(filename): the sheets of the file with the values it holds.
load_workbook(f) ==
    [sheetnames |-> f.sheetnames,
     cells |-> [n \in Range(f.sheetnames) |->
                  LET es == {e \in f.entries : e[1] = n}
                  IN  [rc \in {<<e[2], e[3]>> : e \in es} |->
                         (CHOOSE e \in es : e[2] = rc[1] /\ e[3] = rc[2])[4]]]]

\* ExcelManager.__init__: load the file if there is one, else a new workbook.
init(f) == IF f # NoFile THEN load_workbook(f) ELSE Workbook

\* save that keeps the sheets the file holds and the workbook does not.
save_merging(w, f, io) ==
    IF io = OK
    THEN [file |-> [sheetnames |-> save_workbook(w).sheetnames \o
                                     SelectSeq(f.sheetnames,
                                               LAMBDA n : n \notin Range(w.sheetnames)),
                    entries |-> save_workbook(w).entries \cup
                                  {e \in f.entries : e[1] \notin Range(w.sheetnames)}],
          out |-> OK]
    ELSE [file |-> f, out |-> io]

\* ExcelManager.save: io is what the file system does with the write, "ok"
\* or the exception it raises; a failed write leaves the file as it was.
save(w, f, io) ==
    IF io = OK THEN [file |-> save_workbook(w), out |-> OK]
    ELSE [file |-> f, out |-> io]

----------------------------------------------------------------------------
(* The CLI *)

\* The facade calls of example_usage, in order.
DemoCalls ==
    <<[op |-> "create_sheet", row |-> 0, col |-> NoCol, ref |-> <<>>, val |-> None, fmt |-> None],
      [op |-> "write_cell", row |-> 2, col |-> IntCol(1), ref |-> <<>>, val |-> "1", fmt |-> None],
      [op |-> "write_cell", row |-> 2, col |-> StrCol(<<"B">>), ref |-> <<>>, val |-> "sample1", fmt |-> None],
      [op |-> "write_cell", row |-> 2, col |-> IntCol(3), ref |-> <<>>, val |-> "1000", fmt |-> DemoFormat],
      [op |-> "write_cell_a1", row |-> 0, col |-> NoCol, ref |-> <<"A", "3">>, val |-> "2", fmt |-> None],
      [op |-> "write_cell_a1", row |-> 0, col |-> NoCol, ref |-> <<"B", "3">>, val |-> "sample2", fmt |-> None],
      [op |-> "write_cell_a1", row |-> 0, col |-> NoCol, ref |-> <<"C", "3">>, val |-> "2000", fmt |-> DemoFormat],
      [op |-> "read_cell", row |-> 2, col |-> IntCol(1), ref |-> <<>>, val |-> None, fmt |-> None],
      [op |-> "read_cell_a1", row |-> 0, col |-> NoCol, ref |-> <<"B", "2">>, val |-> None, fmt |-> None],
      [op |-> "read_range", row |-> 0, col |-> NoCol, ref |-> <<>>, val |-> None, fmt |-> None]>>

\* One call of example_usage on workbook w; the engine takes the demo's format.
DemoCall(w, c) ==
    CASE c.op = "create_sheet" -> create_sheet(w, DemoSheet, DemoHeaders)
      [] c.op = "write_cell" -> write_cell(w, DemoSheet, c.row, c.col, c.val, c.fmt, TRUE)
      [] c.op = "write_cell_a1" -> write_cell_a1(w, DemoSheet, c.ref, c.val, c.fmt, TRUE)
      [] c.op = "read_cell" -> read_cell(w, DemoSheet, c.row, c.col)
      [] c.op = "read_cell_a1" -> read_cell_a1(w, DemoSheet, c.ref)
      [] OTHER -> read_range(w, DemoSheet, 2, StrCol(<<"A">>), 3, StrCol(<<"C">>))

\* example_usage from its k-th call on, up to the first exception: the
\* statement that ended the run, its outcome, what was printed, the file.
RECURSIVE DemoFrom(_, _, _, _)
DemoFrom(w, k, f, io) ==
    IF k > Len(DemoCalls)
    THEN [stage |-> "save", out |-> save(w, f, io).out, printed |-> <<>>,
          file |-> save(w, f, io).file]
    ELSE CHOOSE r \in
            {IF res.out # OK
             THEN [stage |-> DemoCalls[k].op, out |-> res.out, printed |-> <<>>, file |-> f]
             ELSE IF k = Len(DemoCalls)
             THEN [DemoFrom(res.wb, k + 1, f, io) EXCEPT !.printed = res.rows]
             ELSE DemoFrom(res.wb, k + 1, f, io) : res \in {DemoCall(w, DemoCalls[k])}} : TRUE

example_usage(f, io) == DemoFrom(init(f), 1, f, io)

\* main that reports the exception and still exits with status 0.
main_exit_zero(f, io) ==
    LET r == example_usage(f, io)
    IN  [status |-> 0,
         stage |-> r.stage,
         error |-> IF r.out = OK THEN None ELSE r.out,
         printed |-> r.printed,
         file |-> r.file]

\* main: run example_usage; on any exception print it and exit with status 1.
main(f, io) ==
    LET r == example_usage(f, io)
    IN  [status |-> IF r.out = OK THEN 0 ELSE 1,
         stage |-> r.stage,
         error |-> IF r.out = OK THEN None ELSE r.out,
         printed |-> r.printed,
         file |-> r.file]

----------------------------------------------------------------------------
(* The state machine *)

\* A file that exists before any facade is constructed.
ExistingFile ==
    [sheetnames |-> <<DefaultSheet, "S1">>, entries |-> {<<"S1", 1, 1, "x">>}]

\* last.lost: the sheets a save removed from the file (history).
NoCall ==
    [f |-> 0, op |-> "none", sheet |-> "", row |-> 0, col |-> NoCol, ref |-> <<>>,
     val |-> None, data |-> <<>>, row2 |-> 0, col2 |-> NoCol,
     out |-> OK, ret |-> None, rows |-> <<>>, lost |-> {}]

NoRun == [runs |-> 0, status |-> 0, stage |-> "none", error |-> None, printed |-> <<>>]

Start(Files) ==
    /\ file \in Files
    /\ wb = [i \in Facades |-> NoWb]
    /\ created = [i \in Facades |-> {}]
    /\ last = NoCall
    /\ cli = NoRun

\* What a facade call leaves behind: the workbook and the record of the call.
Called(i, res, call) ==
    /\ wb' = [wb EXCEPT ![i] = res.wb]
    /\ last' = [call EXCEPT !.f = i, !.out = res.out, !.ret = res.ret, !.rows = res.rows]

\* excel = ExcelManager(filename)
Open(i) ==
    /\ wb' = [wb EXCEPT ![i] = init(file)]
    /\ created' = [created EXCEPT ![i] = {}]
    /\ last' = [NoCall EXCEPT !.f = i, !.op = "init"]
    /\ UNCHANGED <<file, cli>>

CreateSheet(i, Names, Headers) ==
    /\ wb[i] # NoWb
    /\ \E sheet_name \in Names, headers \in Headers :
          /\ Called(i, create_sheet(wb[i], sheet_name, headers),
                    [NoCall EXCEPT !.op = "create_sheet", !.sheet = sheet_name,
                                   !.data = <<headers>>])
          /\ created' = [created EXCEPT ![i] = @ \cup {sheet_name}]
    /\ UNCHANGED <<file, cli>>

WriteData(i, Names, Blocks, Rows) ==
    /\ wb[i] # NoWb
    /\ \E sheet_name \in Names, data \in Blocks, start_row \in Rows :
          Called(i, write_data(wb[i], sheet_name, data, start_row),
                 [NoCall EXCEPT !.op = "write_data", !.sheet = sheet_name,
                                !.data = data, !.row = start_row])
    /\ UNCHANGED <<file, created, cli>>

WriteCell(i, Names, Rows, Cols, Vals, Fmts) ==
    /\ wb[i] # NoWb
    /\ \E sheet_name \in Names, row \in Rows, column \in Cols, value \in Vals,
          number_format \in Fmts :
       \E accepted \in IF number_format = None THEN {TRUE} ELSE BOOLEAN :
          Called(i, write_cell(wb[i], sheet_name, row, column, value,
                               number_format, accepted),
                 [NoCall EXCEPT !.op = "write_cell", !.sheet = sheet_name,
                                !.row = row, !.col = column, !.val = value])
    /\ UNCHANGED <<file, created, cli>>

WriteCellA1(i, Names, Refs, Vals, Fmts) ==
    /\ wb[i] # NoWb
    /\ \E sheet_name \in Names, cell_reference \in Refs, value \in Vals,
          number_format \in Fmts :
       \E accepted \in IF number_format = None THEN {TRUE} ELSE BOOLEAN :
          Called(i, write_cell_a1(wb[i], sheet_name, cell_reference, value,
                                  number_format, accepted),
                 [NoCall EXCEPT !.op = "write_cell_a1", !.sheet = sheet_name,
                                !.ref = cell_reference, !.val = value])
    /\ UNCHANGED <<file, created, cli>>

ReadCell(i, Names, Rows, Cols) ==
    /\ wb[i] # NoWb
    /\ \E sheet_name \in Names, row \in Rows, column \in Cols :
          Called(i, read_cell(wb[i], sheet_name, row, column),
                 [NoCall EXCEPT !.op = "read_cell", !.sheet = sheet_name,
                                !.row = row, !.col = column])
    /\ UNCHANGED <<file, created, cli>>

ReadCellA1(i, Names, Refs) ==
    /\ wb[i] # NoWb
    /\ \E sheet_name \in Names, cell_reference \in Refs :
          Called(i, read_cell_a1(wb[i], sheet_name, cell_reference),
                 [NoCall EXCEPT !.op = "read_cell_a1", !.sheet = sheet_name,
                                !.ref = cell_reference])
    /\ UNCHANGED <<file, created, cli>>

ReadRange(i, Names, Rows, Cols) ==
    /\ wb[i] # NoWb
    /\ \E sheet_name \in Names, start_row \in Rows, end_row \in Rows,
          start_column \in Cols, end_column \in Cols :
          Called(i, read_range(wb[i], sheet_name, start_row, start_column,
                               end_row, end_column),
                 [NoCall EXCEPT !.op = "read_range", !.sheet = sheet_name,
                                !.row = start_row, !.col = start_column,
                                !.row2 = end_row, !.col2 = end_column])
    /\ UNCHANGED <<file, created, cli>>

Save(i, IOs) ==
    /\ wb[i] # NoWb
    /\ \E io \in IOs :
          LET s == save(wb[i], file, io)
          IN  /\ file' = s.file
              /\ last' = [NoCall EXCEPT !.f = i, !.op = "save", !.out = s.out,
                                        !.lost = Range(file.sheetnames)
                                                   \ Range(s.file.sheetnames)]
    /\ UNCHANGED <<wb, created, cli>>

\* The number of runs of the command line that are followed.
MaxRuns == 3

\* python excel_manager.py -f <the path>
Cli(IOs) ==
    /\ cli.runs < MaxRuns
    /\ \E io \in IOs :
          LET m == main(file, io)
          IN  /\ file' = m.file
              /\ cli' = [runs |-> cli.runs + 1, status |-> m.status, stage |-> m.stage,
                         error |-> m.error, printed |-> m.printed]
    /\ UNCHANGED <<wb, created, last>>

----------------------------------------------------------------------------
(* Inputs *)

IOOutcomes == {OK, PermissionDenied, PersistFailed}
SheetNames == {DefaultSheet, "S1"}
Values == {"x", ""}
Formats == {None, DemoFormat}

\* The whole system: two facades on one path, every operation, each on the
\* first cell of a sheet.
A1 == <<"A", "1">>

Next ==
    \E i \in Facades :
        \/ Open(i)
        \/ CreateSheet(i, {"S1"}, {<<>>, <<"h">>})
        \/ WriteData(i, {"S1"}, {<<<<"x">>>>}, {1})
        \/ WriteCell(i, SheetNames, {1}, {IntCol(1)}, Values, {None})
        \/ WriteCellA1(i, {"S1"}, {A1}, Values, {None})
        \/ ReadCell(i, SheetNames, {1}, {IntCol(1)})
        \/ ReadCellA1(i, {"S1"}, {A1})
        \/ ReadRange(i, {"S1"}, {1}, {IntCol(1)})
        \/ Save(i, IOOutcomes)

Init == Start({NoFile, ExistingFile})

Spec == Init /\ [][Next]_vars

----------------------------------------------------------------------------
(* Addressing: one facade on a new workbook, cells addressed in every style, *)
(* in columns A (1) and AA (27), with arguments that do not resolve.         *)

MaxRow == 1

RowArgs == 0..MaxRow
ColArgs ==
    {IntCol(0), IntCol(1), IntCol(27),
     StrCol(<<>>), StrCol(<<"A">>), StrCol(<<"A", "A">>), StrCol(<<"A", "1">>)}
CellRefs ==
    UNION {{<<"A", Digits[r + 1]>>, <<"A", "A", Digits[r + 1]>>} : r \in 1..MaxRow}
BadRefs ==
    {<<>>, <<"A">>, <<"1">>, <<"1", "A">>, <<"A", "0">>, <<"A", "-">>,
     <<"A", "A", "A", "A", "1">>}
Refs == CellRefs \cup BadRefs

NextAddr ==
    \/ Open(1)
    \/ WriteCell(1, {DefaultSheet}, RowArgs, ColArgs, Values, {None})
    \/ WriteCell(1, {DefaultSheet}, {1}, {IntCol(1), StrCol(<<"A", "A">>)}, {"x"}, {DemoFormat})
    \/ WriteCell(1, {"S1"}, RowArgs, ColArgs, {"x"}, {None})
    \/ WriteCellA1(1, {DefaultSheet}, Refs, Values, Formats)
    \/ WriteCellA1(1, {"S1"}, Refs, {"x"}, {DemoFormat})
    \/ WriteData(1, SheetNames, {<<<<"x">>>>}, {0, 1})
    \/ ReadCell(1, SheetNames, RowArgs, ColArgs)
    \/ ReadCellA1(1, SheetNames, Refs)

InitNew == Start({NoFile})

SpecAddr == InitNew /\ [][NextAddr]_vars

----------------------------------------------------------------------------
(* Ranges: blocks written at a start row and rectangles read back.           *)

MaxStart == 2

Block22 == <<<<"a", "b">>, <<"c", "d">>>>
Block12 == <<<<"c", "d">>>>
\* rows of different lengths, and a first row with no value
Ragged == <<<<>>, <<"d", "c">>>>

NextRange ==
    \/ Open(1)
    \/ WriteData(1, {DefaultSheet}, {Block22, Block12, Ragged, <<>>}, 0..MaxStart)
    \/ ReadRange(1, {DefaultSheet}, 1..(MaxStart + 1), {IntCol(1), StrCol(<<"B">>)})

SpecRange == InitNew /\ [][NextRange]_vars

\* Ranges whose bounds are not valid, on a sheet that exists and one that does not.
NextBounds ==
    \/ Open(1)
    \/ WriteData(1, SheetNames, {Block12}, {1})
    \/ ReadRange(1, SheetNames, 0..MaxStart,
                 {IntCol(0), IntCol(1), IntCol(2), StrCol(<<"B">>), StrCol(<<>>)})

SpecBounds == InitNew /\ [][NextBounds]_vars

----------------------------------------------------------------------------
(* The command line, run on a path that a facade also writes.                *)

NextCli ==
    \/ Cli(IOOutcomes)
    \/ Open(1)
    \/ CreateSheet(1, {DemoSheet, "S1"}, {<<>>})
    \/ WriteCell(1, {DemoSheet, "S1"}, {1}, {IntCol(1)}, {"x"}, {None})
    \/ Save(1, {OK})

SpecCli == Init /\ [][NextCli]_vars

----------------------------------------------------------------------------
(* Properties *)

\* A step that is the call op of facade i.
CallStep(i, op) == last' # last /\ last'.f = i /\ last'.op = op

\* A step in which facade i saves and the file system accepts the write.
SaveStep(i) == CallStep(i, "save") /\ last'.out = OK

\* The value a new facade on file f reads at <<row, col>> of a sheet.
Reopened(f, sheet_name, row, col) == read_cell(init(f), sheet_name, row, IntCol(col))

\* The error kinds of the facade's contract: the ValueErrors that report a
\* bad row, column or reference are one kind, whoever words the message.
ErrorKind(out) ==
    CASE out \in {InvalidColumn, InvalidReference, EngineValueError} -> "InvalidAddressError"
      [] out = DuplicateSheet -> "DuplicateSheetError"
      [] out = UnknownSheet -> "UnknownSheetError"
      [] out = InvalidRange -> "InvalidRangeError"
      [] out = InvalidFormat -> "InvalidFormatError"
      [] out = PermissionDenied -> "PermissionDeniedError"
      [] out = PersistFailed -> "PersistError"
      [] OTHER -> out

\* C1 as stated: only a successful save changes the file, and after it a new
\* facade on the path reads, at every address that holds a written value,
\* that same value.
C1_ReopenReadsIdentical ==
    [][/\ file' # file => \E i \in Facades : SaveStep(i)
       /\ \A i \in Facades : SaveStep(i) =>
             \A n \in DOMAIN wb[i].cells : \A rc \in DOMAIN wb[i].cells[n] :
                 /\ Reopened(file', n, rc[1], rc[2]).out = OK
                 /\ Reopened(file', n, rc[1], rc[2]).ret = wb[i].cells[n][rc]]_vars

\* C1, amended: only a successful save changes the file; it leaves the
\* saver's workbook as it is and the file holding that workbook, so that a new
\* facade on the path has the same sheets in the same order and reads at
\* every address the value written there, except that it reads the empty
\* value where the empty string "" was written.
C1_SaveRoundTrip ==
    [][/\ file' # file => \E i \in Facades : SaveStep(i)
       /\ \A i \in Facades : SaveStep(i) =>
             /\ wb' = wb
             /\ init(file').sheetnames = wb[i].sheetnames
             /\ \A n \in DOMAIN wb[i].cells :
                   /\ \A rc \in DOMAIN init(file').cells[n] : rc \in DOMAIN wb[i].cells[n]
                   /\ \A rc \in DOMAIN wb[i].cells[n] :
                         /\ Reopened(file', n, rc[1], rc[2]).out = OK
                         /\ Reopened(file', n, rc[1], rc[2]).ret =
                               IF wb[i].cells[n][rc] = "" THEN None
                               ELSE wb[i].cells[n][rc]]_vars

\* A facade that was just constructed holds a value that only a save can
\* have put into the file.
C1_Witness ==
    /\ last.op = "init"
    /\ GetCell(wb[last.f].cells[DefaultSheet], 1, 1) = "x"

\* C2: create_sheet with a name the workbook already has fails with the
\* duplicate-sheet error and leaves every workbook and the file as they were.
C2_DuplicateCreateFails ==
    [][\A i \in Facades :
          CallStep(i, "create_sheet") /\ HasSheet(wb[i], last'.sheet) =>
              /\ last'.out = DuplicateSheet
              /\ wb' = wb
              /\ file' = file]_vars

\* A create_sheet failed as a duplicate on a sheet that holds a value.
C2_Witness ==
    /\ last.op = "create_sheet"
    /\ last.out = DuplicateSheet
    /\ wb[last.f].cells[last.sheet] # EmptySheet

\* C3 as stated: write_cell and read_cell on a name that was never passed to
\* create_sheet on the facade fail with the unknown-sheet error.
C3_NeverCreatedIsUnknown ==
    last.op \in {"write_cell", "read_cell"} /\ last.sheet \notin created[last.f]
        => last.out = UnknownSheet

\* C3, amended: write_cell and read_cell fail with the unknown-sheet error
\* exactly on the names that are not sheets of the facade's workbook (the
\* sheets loaded from the file or the default sheet of a new workbook, and
\* those create_sheet added).
C3_MissingSheetIsUnknown ==
    last.op \in {"write_cell", "read_cell"} =>
        (last.out = UnknownSheet <=> ~HasSheet(wb[last.f], last.sheet))

\* A read failed on a name that is no sheet and was never passed to create_sheet.
C3_Witness ==
    /\ last.op = "read_cell"
    /\ last.out = UnknownSheet
    /\ last.sheet \notin created[last.f]

\* C8: a call of one facade leaves the other facade's workbook alone; a save
\* ends only as the file system decides, never because of the other facade;
\* an accepted save leaves the file holding the saver's workbook, whatever
\* the file held, and reports nothing when that drops what the file held.
C8_LastSaveWins ==
    [][\A i \in Facades :
          /\ last' # last /\ last'.f = i =>
                \A j \in Facades \ {i} : wb'[j] = wb[j] /\ created'[j] = created[j]
          /\ CallStep(i, "save") => last'.out \in IOOutcomes
          /\ SaveStep(i) =>
                /\ file' = save_workbook(wb[i])
                /\ \A e \in file.entries :
                      e \in file'.entries <=> e \in save_workbook(wb[i]).entries]_vars

\* An accepted save removed from the file a sheet that the other facade had
\* saved and the saver never loaded.
C8_Witness ==
    /\ last.op = "save"
    /\ last.out = OK
    /\ last.lost # {}

----------------------------------------------------------------------------
(* Addresses as the contract names them: column n is written in letters     *)
(* with A = 1, Z = 26, AA = 27, and the reference of <<row, column>> is the *)
(* column's letters followed by the row in decimal.                         *)

RECURSIVE ColumnLetters(_)
ColumnLetters(n) ==
    IF n <= 26 THEN <<Alphabet[n]>>
    ELSE Append(ColumnLetters((n - 1) \div 26), Alphabet[((n - 1) % 26) + 1])

RECURSIVE RowDigits(_)
RowDigits(r) ==
    IF r < 10 THEN <<Digits[r + 1]>>
    ELSE Append(RowDigits(r \div 10), Digits[(r % 10) + 1])

RefOf(row, col) == ColumnLetters(col) \o RowDigits(row)

ClaimRows == 1..MaxRow
ClaimCols == {1, 27}
WriteOps == {"write_cell", "write_cell_a1", "write_data"}

\* The call recorded in c addresses cell <<row, col>> of the sheet, in any style.
Addresses(c, sheet_name, row, col) ==
    /\ c.sheet = sheet_name
    /\ \/ /\ c.op \in {"write_cell", "read_cell"}
          /\ c.row = row
          /\ c.col \in {IntCol(col), StrCol(ColumnLetters(col))}
       \/ /\ c.op \in {"write_cell_a1", "read_cell_a1"}
          /\ c.ref = RefOf(row, col)

\* The block written by the call recorded in c covers cell <<row, col>>.
Covers(c, sheet_name, row, col) ==
    /\ c.op = "write_data"
    /\ c.sheet = sheet_name
    /\ row - c.row + 1 \in DOMAIN c.data
    /\ col \in DOMAIN c.data[row - c.row + 1]

\* Every style of read gives value v at <<row, col>> of the sheet of w.
ReadsAll(w, sheet_name, row, col, v) ==
    /\ read_cell(w, sheet_name, row, IntCol(col)) = Result(w, OK, v, <<>>)
    /\ read_cell(w, sheet_name, row, StrCol(ColumnLetters(col))) = Result(w, OK, v, <<>>)
    /\ read_cell_a1(w, sheet_name, RefOf(row, col)) = Result(w, OK, v, <<>>)

\* C4: a write of v to <<row, col>> in any style makes every style of read
\* give v there; a write that does not address that cell leaves the value
\* there as it was; a read changes no cell and, in any style, returns the
\* value that is there.
C4_WriteReadRoundTrip ==
    [][/\ last' # last /\ last'.op \in {"write_cell", "write_cell_a1"} /\ last'.out = OK =>
             \A sheet_name \in SheetNames, row \in ClaimRows, col \in ClaimCols :
                Addresses(last', sheet_name, row, col)
                => ReadsAll(wb'[last'.f], sheet_name, row, col, last'.val)
       /\ last' # last /\ last'.op \in WriteOps =>
             \A sheet_name \in SheetNames, row \in ClaimRows, col \in ClaimCols :
                /\ HasSheet(wb[last'.f], sheet_name)
                /\ ~Addresses(last', sheet_name, row, col)
                /\ ~Covers(last', sheet_name, row, col)
                => GetCell(wb'[last'.f].cells[sheet_name], row, col)
                     = GetCell(wb[last'.f].cells[sheet_name], row, col)
       /\ last' # last /\ last'.op \in {"read_cell", "read_cell_a1"} =>
             /\ wb' = wb
             /\ \A sheet_name \in SheetNames, row \in ClaimRows, col \in ClaimCols :
                   HasSheet(wb[last'.f], sheet_name) /\ Addresses(last', sheet_name, row, col)
                   => /\ last'.out = OK
                      /\ last'.ret = GetCell(wb[last'.f].cells[sheet_name], row, col)]_vars

\* A read by reference returned a value stored in column AA.
C4_Witness ==
    /\ last.op = "read_cell_a1"
    /\ last.out = OK
    /\ last.ref = <<"A", "A", "1">>
    /\ last.ret = "x"

\* C5 as stated: a write that fails with the unknown-sheet error, an address
\* error or the format error leaves every cell of the workbook as it was.
C5_FailedWriteChangesNothing ==
    [][/\ last' # last
       /\ last'.op \in WriteOps
       /\ ErrorKind(last'.out) \in
             {"UnknownSheetError", "InvalidAddressError", "InvalidFormatError"}
       => wb' = wb]_vars

\* The workbook after the write recorded in c, made on w with no number format.
Stored(w, c) ==
    IF c.op = "write_cell"
    THEN write_cell(w, c.sheet, c.row, c.col, c.val, None, TRUE).wb
    ELSE write_cell_a1(w, c.sheet, c.ref, c.val, None, TRUE).wb

\* C5, amended: a write that fails with the unknown-sheet error or an address
\* error (or an exception of the engine for a reference that is no single
\* cell) leaves every cell as it was; a write that fails with the format
\* error has stored the value in the addressed cell, and changed nothing else.
C5_FailedWriteEffect ==
    [][/\ last' # last
       /\ last'.op \in WriteOps
       /\ last'.out # OK
       => IF last'.out = InvalidFormat
          THEN wb' = [wb EXCEPT ![last'.f] = Stored(wb[last'.f], last')]
          ELSE wb' = wb]_vars

\* A write failed on its address on a workbook that holds a value.
C5_Witness ==
    /\ last.op \in WriteOps
    /\ ErrorKind(last.out) = "InvalidAddressError"
    /\ wb[last.f].cells[last.sheet] # EmptySheet

\* C9: read_cell ends with the error kind write_cell ends with on the same
\* sheet name, row and column, and read_cell_a1 with the kind write_cell_a1
\* ends with on the same sheet name and reference (a write with no number
\* format; "ok" is the kind of a call that does not fail); a reference the
\* engine cannot take as a coordinate makes both an invalid-address error.
C9_ReadFailsAsWriteFails ==
    /\ last.op = "read_cell" =>
          ErrorKind(last.out) =
            ErrorKind(write_cell(wb[last.f], last.sheet, last.row, last.col,
                                 "x", None, TRUE).out)
    /\ last.op = "read_cell_a1" =>
          ErrorKind(last.out) =
            ErrorKind(write_cell_a1(wb[last.f], last.sheet, last.ref, "x", None, TRUE).out)
    /\ last.op = "write_cell" /\ last.out # InvalidFormat =>
          ErrorKind(last.out) =
            ErrorKind(read_cell(wb[last.f], last.sheet, last.row, last.col).out)
    /\ last.op = "write_cell_a1" /\ last.out # InvalidFormat =>
          ErrorKind(last.out) =
            ErrorKind(read_cell_a1(wb[last.f], last.sheet, last.ref).out)
    /\ /\ last.op \in {"read_cell_a1", "write_cell_a1"}
       /\ HasSheet(wb[last.f], last.sheet)
       /\ ws_getitem(last.ref).kind = "ValueError"
       => ErrorKind(last.out) = "InvalidAddressError"

\* A read by reference failed on a reference the engine cannot take.
C9_Witness ==
    /\ last.op = "read_cell_a1"
    /\ last.out = EngineValueError
    /\ last.ref = <<"1", "A">>

----------------------------------------------------------------------------
(* Ranges *)

\* The number of the column a bound names, 0 if it names none.
ClaimColumns == 1..27
ClaimCol(c) ==
    IF ~c.isStr THEN c.n
    ELSE IF \E n \in ClaimColumns : ColumnLetters(n) = c.s
    THEN CHOOSE n \in ClaimColumns : ColumnLetters(n) = c.s
    ELSE 0

\* The bounds of the call recorded in c are reversed.
Reversed(c) ==
    \/ c.row2 < c.row
    \/ /\ ClaimCol(c.col) >= 1
       /\ ClaimCol(c.col2) >= 1
       /\ ClaimCol(c.col2) < ClaimCol(c.col)

\* C6 as stated: a read_range whose end row is below its start row, or whose
\* end column is below its start column, fails with the invalid-range error
\* and returns no rows, whatever its other arguments.
C6_ReversedIsInvalidRange ==
    last.op = "read_range" /\ Reversed(last)
    => ErrorKind(last.out) = "InvalidRangeError" /\ last.rows = <<>>

\* C6, amended: on a sheet of the workbook, a read_range with reversed
\* bounds fails with the invalid-range error and returns no rows; on a name
\* that is no sheet of the workbook it fails with the unknown-sheet error.
C6_ReversedOnSheetIsInvalidRange ==
    last.op = "read_range" /\ Reversed(last)
    => /\ last.rows = <<>>
       /\ ErrorKind(last.out) =
            IF HasSheet(wb[last.f], last.sheet) THEN "InvalidRangeError"
            ELSE "UnknownSheetError"

\* A range from column B back to column 1, on valid rows, was refused.
C6_Witness ==
    /\ last.op = "read_range"
    /\ last.out = InvalidRange
    /\ last.col = StrCol(<<"B">>)
    /\ last.col2 = IntCol(1)
    /\ 1 <= last.row
    /\ last.row <= last.row2

\* Every row of the block has the same, positive, number of values.
Rectangular(data) ==
    /\ Len(data) >= 1
    /\ Len(data[1]) >= 1
    /\ \A i \in DOMAIN data : Len(data[i]) = Len(data[1])

RangeRows == 1..(MaxStart + 2)
RangeCols == 1..2

\* C7: a new workbook holds the empty value everywhere; a write_data puts
\* each value of the block at its cell, rows down from start_row and columns
\* right from 1, and changes no other cell; after it a read_range over the
\* cells of a rectangular block returns the block; and any read_range that
\* succeeds returns end_row - start_row + 1 rows of end_column - start_column
\* + 1 values, each the value its cell holds.
C7_RangeRoundTrip ==
    [][/\ last' # last /\ last'.op = "init" =>
             \A row \in RangeRows, col \in RangeCols :
                GetCell(wb'[last'.f].cells[DefaultSheet], row, col) = None
       /\ last' # last /\ last'.op = "write_data" /\ last'.out = OK =>
             /\ \A row \in RangeRows, col \in RangeCols :
                   GetCell(wb'[last'.f].cells[last'.sheet], row, col) =
                      IF Covers(last', last'.sheet, row, col)
                      THEN last'.data[row - last'.row + 1][col]
                      ELSE GetCell(wb[last'.f].cells[last'.sheet], row, col)
             /\ Rectangular(last'.data) =>
                   read_range(wb'[last'.f], last'.sheet, last'.row, IntCol(1),
                              last'.row + Len(last'.data) - 1,
                              IntCol(Len(last'.data[1])))
                     = Result(wb'[last'.f], OK, None, last'.data)
       /\ last' # last /\ last'.op = "read_range" /\ last'.out = OK =>
             /\ wb' = wb
             /\ Len(last'.rows) = last'.row2 - last'.row + 1
             /\ \A i \in DOMAIN last'.rows :
                   /\ Len(last'.rows[i]) = ClaimCol(last'.col2) - ClaimCol(last'.col) + 1
                   /\ \A j \in DOMAIN last'.rows[i] :
                         last'.rows[i][j] =
                            GetCell(wb[last'.f].cells[last'.sheet],
                                    last'.row + i - 1, ClaimCol(last'.col) + j - 1)]_vars

\* A read_range returned a two by two block written at row 2.
C7_Witness ==
    /\ last.op = "read_range"
    /\ last.out = OK
    /\ last.row = 2
    /\ last.rows = Block22

----------------------------------------------------------------------------
(* The command line *)

\* The file the demonstration leaves when it runs on a path with no file.
DemoFile ==
    [sheetnames |-> <<DefaultSheet, DemoSheet>>,
     entries |-> {<<DemoSheet, 1, 1, DemoHeaders[1]>>, <<DemoSheet, 1, 2, DemoHeaders[2]>>,
                  <<DemoSheet, 1, 3, DemoHeaders[3]>>,
                  <<DemoSheet, 2, 1, "1">>, <<DemoSheet, 2, 2, "sample1">>,
                  <<DemoSheet, 2, 3, "1000">>,
                  <<DemoSheet, 3, 1, "2">>, <<DemoSheet, 3, 2, "sample2">>,
                  <<DemoSheet, 3, 3, "2000">>}]

CliStep == cli'.runs = cli.runs + 1

\* A run on a file that holds the demo sheet fails at create_sheet with the
\* duplicate-sheet error, exits with status 1 and leaves the file as it was.
RerunFails ==
    CliStep /\ HasSheet(file, DemoSheet)
    => /\ cli'.status = 1
       /\ cli'.stage = "create_sheet"
       /\ cli'.error = DuplicateSheet
       /\ cli'.printed = <<>>
       /\ file' = file

\* C10 as stated: a run on a path with no file creates the demo sheet, saves
\* and exits with status 0; a run on a file that holds the demo sheet fails
\* at create_sheet, exits with status 1 and leaves the file as it was.
C10_FirstRunExitsZero ==
    [][/\ CliStep /\ file = NoFile => cli'.status = 0 /\ file' = DemoFile
       /\ RerunFails]_vars

\* C10, amended: a run on a path with no file either saves the demo file and
\* exits with status 0, or, when the file system refuses the save, fails at
\* save, exits with status 1 and leaves no file; a run on a file that holds
\* the demo sheet fails at create_sheet with the duplicate-sheet error before
\* any write or save, exits with status 1 and leaves the file as it was.
C10_RerunFailsOnDuplicate ==
    [][/\ CliStep /\ file = NoFile =>
             \/ /\ cli'.status = 0
                /\ cli'.error = None
                /\ file' = DemoFile
             \/ /\ cli'.status = 1
                /\ cli'.stage = "save"
                /\ cli'.error \in {PermissionDenied, PersistFailed}
                /\ file' = NoFile
       /\ RerunFails]_vars

\* A second run failed on the sheet the first run saved.
C10_Witness ==
    /\ cli.runs >= 2
    /\ cli.status = 1
    /\ cli.error = DuplicateSheet
    /\ file = DemoFile

====
